---- MODULE Spec2Model ----
(***************************************************************************)
(* The SEF carbon calculator (src/app.py and its earlier version           *)
(* src/app_original.py): a Streamlit script that loads a table of emission *)
(* factors, checks its columns, looks factors up with ef() and sums        *)
(* quantity x factor into scope 1, scope 2, total and intensity.           *)
(*                                                                         *)
(* Numbers: quantities and factors are modelled as exact rationals         *)
(* extended with nan, inf, -inf and the negative zero. The factors of the  *)
(* model are dyadic, so sums and products are the doubles Python computes; *)
(* a quotient stands for the double nearest to it.                         *)
(***************************************************************************)
EXTENDS Integers, Sequences, FiniteSets, TLC

VARIABLES
    variant,    \* which script runs: "app" (src/app.py) or "original" (src/app_original.py)
    pc,         \* position of the script run
    use_custom, \* the "Upload a custom factors CSV" toggle
    up,         \* the uploaded file, or NoFile
    factors,    \* the DataFrame returned by load_factors: [columns, rows]
    inputs,     \* the widget values: state, fte, use_anaes, qty
    calls,      \* the ef() calls made by the current run, in order
    vals,       \* the names the calculation block has bound so far, with their values
    error,      \* the st.error shown by the current run (or NoError)
    screen,     \* what the results section has rendered (or NoScreen)
    res_csv,    \* rows of the downloadable CSV (or <<>>)
    req,        \* a single ef() request: <<category, subcategory, state>>
    ret         \* what ef() did with req (or NoRet)

vars == <<variant, pc, use_custom, up, factors, inputs, calls, vals, error,
          screen, res_csv, req, ret>>

-----------------------------------------------------------------------------
(* Bounds of the model *)

MaxQty == 1
MaxFte == 2
MaxChanges == 2
MaxRows == 2

-----------------------------------------------------------------------------
(* Floats: [k, n, d, neg] with k in fin/nan/inf/-inf; a finite value is    *)
(* n/d in lowest terms with d > 0, and neg marks the zero that is -0.0.    *)

RECURSIVE Gcd(_, _)
Gcd(a, b) == IF b = 0 THEN a ELSE Gcd(b, a % b)

Abs(x) == IF x < 0 THEN -x ELSE x

NaN == [k |-> "nan", n |-> 0, d |-> 1, neg |-> FALSE]
PosInf == [k |-> "inf", n |-> 0, d |-> 1, neg |-> FALSE]
NegInf == [k |-> "-inf", n |-> 0, d |-> 1, neg |-> FALSE]
NegZero == [k |-> "fin", n |-> 0, d |-> 1, neg |-> TRUE]

Frac(n, d) ==
    LET g == Gcd(Abs(n), d)
    IN  [k |-> "fin", n |-> n \div g, d |-> d \div g, neg |-> FALSE]

Fin(n) == Frac(n, 1)

IsFinite(x) == x.k = "fin"

\* The sign bit of a finite float
SignBit(x) == x.n < 0 \/ x.neg

\* x * y of Python floats
FMul(x, y) ==
    IF x.k = "nan" \/ y.k = "nan" THEN NaN
    ELSE IF x.k = "fin" /\ y.k = "fin"
         THEN IF x.n * y.n # 0 THEN Frac(x.n * y.n, x.d * y.d)
              ELSE IF SignBit(x) # SignBit(y) THEN NegZero ELSE Fin(0)
    ELSE LET sx == IF x.k = "fin" THEN x.n ELSE IF x.k = "inf" THEN 1 ELSE -1
             sy == IF y.k = "fin" THEN y.n ELSE IF y.k = "inf" THEN 1 ELSE -1
         IN  IF sx = 0 \/ sy = 0 THEN NaN
             ELSE IF (sx > 0) = (sy > 0) THEN PosInf ELSE NegInf

\* x + y of Python floats
FAdd(x, y) ==
    IF x.k = "nan" \/ y.k = "nan" THEN NaN
    ELSE IF x.k = "fin" /\ y.k = "fin"
         THEN IF x.n * y.d + y.n * x.d # 0 THEN Frac(x.n * y.d + y.n * x.d, x.d * y.d)
              ELSE IF x.n = 0 /\ y.n = 0 /\ x.neg /\ y.neg THEN NegZero ELSE Fin(0)
    ELSE IF x.k = "fin" THEN y
    ELSE IF y.k = "fin" THEN x
    ELSE IF x.k = y.k THEN x ELSE NaN

\* x / y of Python floats, for a finite y > 0
FDiv(x, y) ==
    IF x.k = "fin" /\ x.n # 0 THEN Frac(x.n * y.d, x.d * y.n) ELSE x

\* d is a power of two: n/d is a double as it stands
RECURSIVE IsPow2(_)
IsPow2(d) == d = 1 \/ (d % 2 = 0 /\ IsPow2(d \div 2))

\* The e with 2^e <= a/d < 2^(e+1), for a, d > 0
RECURSIVE Log2Up(_, _)
Log2Up(a, d) == IF 2 * d <= a THEN 1 + Log2Up(a, 2 * d) ELSE 0
RECURSIVE Log2Down(_, _)
Log2Down(a, d) == IF a >= d THEN 0 ELSE Log2Down(2 * a, d) - 1
Log2Floor(a, d) == IF a >= d THEN Log2Up(a, d) ELSE Log2Down(a, d)

\* 2^e mod d
RECURSIVE PowMod2(_, _)
PowMod2(e, d) == IF e = 0 THEN 1 % d ELSE (2 * PowMod2(e - 1, d)) % d

\* The double nearest to a/d (53 bits, a, d > 0, d not a power of two) is
\* the larger of its two neighbours: the bits cut off are more than half
DoubleAbove(a, d) ==
    LET e == 52 - Log2Floor(a, d)
        r == ((a % d) * PowMod2(e, d)) % d
    IN  2 * r > d

-----------------------------------------------------------------------------
(* The factor table *)

None == "None"

required_cols ==
    <<"category", "subcategory", "unit", "factor", "state", "source", "source_year">>

ExtraCols == {"notes"}

Range(s) == {s[i] : i \in 1..Len(s)}

\* missing with the test turned round: the columns that are not required
missingReversed(columns) ==
    SelectSeq(required_cols \o <<"notes">>,
              LAMBDA c : c \in columns /\ c \notin Range(required_cols))

\* missing = [c for c in required_cols if c not in factors.columns]
missing(columns) == SelectSeq(required_cols, LAMBDA c : c \notin columns)

\* A cell that read_csv left empty is NaN, and NaN == "text" is False.
CellEq(cell, v) == cell # "" /\ cell = v

\* The text of a factor cell as float(val) takes it: NumText gives the
\* cells that are numerals; an empty cell and "nan" come out of read_csv as
\* NaN, "inf" and "-inf" as infinities; anything else makes float() raise.
NumText ==
    [t \in {"0", "-0.0", "1", "2", "3", "-1", "0.5"} |->
        CASE t = "0" -> Fin(0)
          [] t = "-0.0" -> NegZero
          [] t = "1" -> Fin(1)
          [] t = "2" -> Fin(2)
          [] t = "3" -> Fin(3)
          [] t = "-1" -> Fin(-1)
          [] t = "0.5" -> Frac(1, 2)]

FloatRaises(val) == val \notin (DOMAIN NumText) \cup {"", "nan", "inf", "-inf"}

Float(val) ==
    CASE val \in DOMAIN NumText -> NumText[val]
      [] val \in {"", "nan"} -> NaN
      [] val = "inf" -> PosInf
      [] val = "-inf" -> NegInf

Row(c, s, f, st) == [category |-> c, subcategory |-> s, factor |-> f, state |-> st]

NoErrorKey == <<>>

Returned(v) == [ok |-> TRUE, val |-> v, kind |-> "", key |-> NoErrorKey, raw |-> ""]
Raised(kind, key, raw) == [ok |-> FALSE, val |-> NaN, kind |-> kind, key |-> key, raw |-> raw]

\* Filtered with a filter that was not passed matching only empty cells
FilteredNoneAsEmpty(rows, category, subcategory, state) ==
    SelectSeq(rows, LAMBDA r :
        /\ CellEq(r.category, category)
        /\ IF subcategory # None THEN CellEq(r.subcategory, subcategory)
                                 ELSE r.subcategory = ""
        /\ IF state # None THEN CellEq(r.state, state) ELSE r.state = "")

\* df = factors[factors["category"] == category], then the two optional filters
Filtered(rows, category, subcategory, state) ==
    LET df0 == SelectSeq(rows, LAMBDA r : CellEq(r.category, category))
        df1 == IF subcategory # None
               THEN SelectSeq(df0, LAMBDA r : CellEq(r.subcategory, subcategory))
               ELSE df0
    IN  IF state # None
        THEN SelectSeq(df1, LAMBDA r : CellEq(r.state, state))
        ELSE df1

\* ef taking df.iloc[-1]
efLastRow(rows, category, subcategory, state) ==
    LET df == Filtered(rows, category, subcategory, state)
    IN  IF df = <<>>
        THEN Raised("No emission factor found", <<category, subcategory, state>>, "")
        ELSE LET val == df[Len(df)].factor
             IN  IF FloatRaises(val)
                 THEN Raised("is not numeric", <<category, subcategory, state>>, val)
                 ELSE Returned(Float(val))

\* def ef(category, subcategory=None, state=None)
ef(rows, category, subcategory, state) ==
    LET df == Filtered(rows, category, subcategory, state)
    IN  IF df = <<>>
        THEN Raised("No emission factor found", <<category, subcategory, state>>, "")
        ELSE LET val == df[1].factor
             IN  IF FloatRaises(val)
                 THEN Raised("is not numeric", <<category, subcategory, state>>, val)
                 ELSE Returned(Float(val))

-----------------------------------------------------------------------------
(* The widgets *)

\* st.selectbox("State/Territory", [...])
Regions == <<"NSW", "QLD", "VIC", "SA", "WA", "TAS", "ACT", "NT">>

\* st.number_input("FTE staff (for intensity)", min_value=0.0, value=10.0, ...)
fte_default == 10

AnaesQty == <<"iso_g", "sev_g", "des_g", "n2o_g">>
QtyNames ==
    {"elec_kwh", "iso_g", "sev_g", "des_g", "n2o_g", "lpg_L", "natgas_MJ",
     "petrol_L", "diesel_L"}

FteValues == (0..MaxFte) \cup {fte_default}

\* The anaesthetic block is unconditional in src/app.py; in
\* src/app_original.py it is behind the "Include anaesthetic agents" checkbox.
Defaults(v) ==
    [state |-> Regions[1], fte |-> fte_default, use_anaes |-> (v = "app"),
     qty |-> [q \in QtyNames |-> 0]]

\* The widgets a user has moved away from their defaults
Changed(v, w) ==
    {q \in QtyNames : w.qty[q] # 0}
        \cup (IF w.state # Regions[1] THEN {"state"} ELSE {})
        \cup (IF w.fte # fte_default THEN {"fte"} ELSE {})
        \cup (IF w.use_anaes # (v = "app") THEN {"use_anaes"} ELSE {})

\* One widget edited. The four anaesthetic inputs of src/app_original.py
\* exist only while the checkbox is ticked: iso_g = sev_g = des_g = n2o_g = 0.0.
OneEdit(v, w) ==
    {[w EXCEPT !.state = s] : s \in Range(Regions) \ {w.state}}
        \cup {[w EXCEPT !.fte = f] : f \in FteValues \ {w.fte}}
        \cup UNION {{[w EXCEPT !.qty[q] = n] : n \in (0..MaxQty) \ {w.qty[q]}} :
                      q \in (IF v = "original" /\ ~w.use_anaes
                             THEN QtyNames \ Range(AnaesQty) ELSE QtyNames)}
        \cup (IF v = "original"
              THEN {[w EXCEPT !.use_anaes = ~w.use_anaes,
                              !.qty = [q \in QtyNames |->
                                         IF q \in Range(AnaesQty) THEN 0 ELSE w.qty[q]]]}
              ELSE {})

-----------------------------------------------------------------------------
(* The calculation block *)

Line(q, c, s, st) == [qty |-> q, category |-> c, subcategory |-> s, state |-> st]

ElecLine(w) == Line("elec_kwh", "electricity", None, w.state)
AnaesLines ==
    <<Line("iso_g", "anaes", "isoflurane_g", None),
      Line("sev_g", "anaes", "sevoflurane_g", None),
      Line("des_g", "anaes", "desflurane_g", None),
      Line("n2o_g", "anaes", "n2o_g", None)>>
GasLines ==
    <<Line("lpg_L", "fuel", "lpg_L", None),
      Line("natgas_MJ", "fuel", "natural_gas_MJ", None)>>
VehicleLines ==
    <<Line("petrol_L", "fuel", "petrol_L", None),
      Line("diesel_L", "fuel", "diesel_L", None)>>

\* Lines with the anaesthetic terms whatever the checkbox says
LinesAnaesAlways(v, w) ==
    IF v = "app"
    THEN <<ElecLine(w)>> \o AnaesLines \o GasLines \o VehicleLines
    ELSE <<ElecLine(w)>> \o VehicleLines \o GasLines \o AnaesLines

\* The quantity x ef(...) terms of the try block, in evaluation order
Lines(v, w) ==
    IF v = "app"
    THEN <<ElecLine(w)>> \o AnaesLines \o GasLines \o VehicleLines
    ELSE <<ElecLine(w)>> \o VehicleLines \o GasLines
            \o (IF w.use_anaes THEN AnaesLines ELSE <<>>)

Lookup(rows, l) == ef(rows, l.category, l.subcategory, l.state)

\* FirstRaise with ef() called only for a quantity that is not zero
FirstRaiseNonZero(rows, w, ls) ==
    LET bad == {i \in 1..Len(ls) : w.qty[ls[i].qty] # 0 /\ ~Lookup(rows, ls[i]).ok}
    IN  IF bad = {} THEN 0 ELSE CHOOSE i \in bad : \A j \in bad : i <= j

\* Index of the first term quantity * ef(...) whose ef() raises, or 0: Python
\* evaluates every term in order, whatever the quantity
FirstRaise(rows, w, ls) ==
    LET bad == {i \in 1..Len(ls) : ~Lookup(rows, ls[i]).ok}
    IN  IF bad = {} THEN 0 ELSE CHOOSE i \in bad : \A j \in bad : i <= j

\* quantity * ef(...)
Term(rows, w, l) == FMul(Fin(w.qty[l.qty]), Lookup(rows, l).val)

\* a + b + ... , left to right
RECURSIVE SumTerms(_, _, _)
SumTerms(rows, w, ls) ==
    IF Len(ls) = 1 THEN Term(rows, w, ls[1])
    ELSE FAdd(SumTerms(rows, w, SubSeq(ls, 1, Len(ls) - 1)), Term(rows, w, ls[Len(ls)]))

\* Intensity with * for /
IntensityTimes(total, fte) == IF fte > 0 THEN FMul(total, Fin(fte)) ELSE Fin(0)

\* intensity_per_fte = total / fte if fte > 0 else 0.0
Intensity(total, fte) == IF fte > 0 THEN FDiv(total, Fin(fte)) ELSE Fin(0)

\* ValsApp with scope1_vehicles left out of scope1_total
ValsAppNoVehicles(rows, w) ==
    LET scope2_elec == Term(rows, w, ElecLine(w))
        scope1_anaes == SumTerms(rows, w, AnaesLines)
        scope1_gas == SumTerms(rows, w, GasLines)
        scope1_vehicles == SumTerms(rows, w, VehicleLines)
        scope1_total == FAdd(scope1_anaes, scope1_gas)
        total == FAdd(scope1_total, scope2_elec)
    IN  [scope2 |-> scope2_elec, scope1_anaes |-> scope1_anaes,
         scope1_gas |-> scope1_gas, scope1_vehicles |-> scope1_vehicles,
         scope1 |-> scope1_total, total |-> total,
         intensity_per_fte |-> Intensity(total, w.fte)]

\* The names bound by src/app.py lines 141-161 when no ef() raises
ValsApp(rows, w) ==
    LET scope2_elec == Term(rows, w, ElecLine(w))
        scope1_anaes == SumTerms(rows, w, AnaesLines)
        scope1_gas == SumTerms(rows, w, GasLines)
        scope1_vehicles == SumTerms(rows, w, VehicleLines)
        scope1_total == FAdd(FAdd(scope1_anaes, scope1_gas), scope1_vehicles)
        total == FAdd(scope1_total, scope2_elec)
    IN  [scope2 |-> scope2_elec, scope1_anaes |-> scope1_anaes,
         scope1_gas |-> scope1_gas, scope1_vehicles |-> scope1_vehicles,
         scope1 |-> scope1_total, total |-> total,
         intensity_per_fte |-> Intensity(total, w.fte)]

\* The names bound by src/app_original.py lines 149-166 when no ef() raises
ValsOriginal(rows, w) ==
    LET scope2 == Term(rows, w, ElecLine(w))
        scope1_fuels == SumTerms(rows, w, VehicleLines \o GasLines)
        scope1_anaes == IF w.use_anaes THEN SumTerms(rows, w, AnaesLines) ELSE Fin(0)
        scope1 == FAdd(scope1_fuels, scope1_anaes)
        total == FAdd(scope1, scope2)
    IN  [scope2 |-> scope2, scope1_fuels |-> scope1_fuels,
         scope1_anaes |-> scope1_anaes, scope1 |-> scope1, total |-> total,
         intensity_per_fte |-> Intensity(total, w.fte)]

Vals(v, rows, w) == IF v = "app" THEN ValsApp(rows, w) ELSE ValsOriginal(rows, w)

\* The names assigned before the statement whose term k raises. In
\* src/app_original.py scope1_anaes = 0.0 is assigned before the anaesthetic
\* terms are evaluated.
BoundBefore(v, k) ==
    IF v = "app"
    THEN (IF k > 1 THEN {"scope2"} ELSE {})
            \cup (IF k > 5 THEN {"scope1_anaes"} ELSE {})
            \cup (IF k > 7 THEN {"scope1_gas"} ELSE {})
    ELSE (IF k > 1 THEN {"scope2"} ELSE {})
            \cup (IF k > 5 THEN {"scope1_fuels", "scope1_anaes"} ELSE {})

\* What the names hold when the except clause runs after term k raised
ValsBefore(v, rows, w, k) ==
    [name \in BoundBefore(v, k) |->
        IF v = "original" /\ name = "scope1_anaes" THEN Fin(0)
        ELSE Vals(v, rows, w)[name]]

\* f"{intensity_per_fte:,.2f}": the hundredths nearest to the double, with
\* the sign kept apart ("-0.00" is a text Python produces). Half way between
\* two hundredths a double that is exact goes to the even one; any other
\* double lies beside the half and goes to the side it is on.
Format2f(x) ==
    IF x.k # "fin" THEN [k |-> x.k, minus |-> FALSE, cents |-> 0]
    ELSE LET h == Abs(x.n) * 100
             q == h \div x.d
             r == h % x.d
             c == IF 2 * r < x.d THEN q
                  ELSE IF 2 * r > x.d THEN q + 1
                  ELSE IF IsPow2(x.d) THEN (IF q % 2 = 0 THEN q ELSE q + 1)
                  ELSE IF DoubleAbove(Abs(x.n), x.d) THEN q + 1 ELSE q
         IN  [k |-> "fin", minus |-> SignBit(x), cents |-> c]

\* The "Metric" / "Value (kgCO2e)" frame shown by st.dataframe(res)
ResTable(v, x) ==
    IF v = "app"
    THEN <<<<"Scope 1 - Anaesthetic agents", x.scope1_anaes>>,
           <<"Scope 1 - Gas (LPG + Natural gas)", x.scope1_gas>>,
           <<"Scope 1 - Vehicles (petrol + diesel)", x.scope1_vehicles>>,
           <<"Scope 1 - Total", x.scope1>>,
           <<"Scope 2 - Grid electricity", x.scope2>>,
           <<"Total (kgCO2e)", x.total>>>>
    ELSE <<<<"Scope 1 (fuels)", x.scope1_fuels>>,
           <<"Scope 1 (anaesthetic gases)", x.scope1_anaes>>,
           <<"Scope 1 (total)", x.scope1>>,
           <<"Scope 2 (electricity)", x.scope2>>,
           <<"Total (kgCO2e)", x.total>>>>

\* results_dict["results_kgco2e"].items() under the columns Metric, Value_kgCO2e
ResCsv(v, x) ==
    IF v = "app"
    THEN <<<<"scope1_anaes", x.scope1_anaes>>, <<"scope1_gas", x.scope1_gas>>,
           <<"scope1_vehicles", x.scope1_vehicles>>, <<"scope1_total", x.scope1>>,
           <<"scope2_electricity", x.scope2>>, <<"total", x.total>>,
           <<"intensity_per_fte", x.intensity_per_fte>>>>
    ELSE <<<<"scope1_fuels", x.scope1_fuels>>, <<"scope1_anaes", x.scope1_anaes>>,
           <<"scope1_total", x.scope1>>, <<"scope2_electricity", x.scope2>>,
           <<"total", x.total>>, <<"intensity_per_fte", x.intensity_per_fte>>>>

-----------------------------------------------------------------------------
(* The factor files a session meets *)

BaseRows ==
    <<Row("electricity", "", "2", "NSW"), Row("electricity", "", "3", "QLD"),
      Row("electricity", "", "1", "VIC"), Row("electricity", "", "0.5", "SA"),
      Row("electricity", "", "1", "WA"), Row("electricity", "", "0.5", "TAS"),
      Row("electricity", "", "2", "ACT"), Row("electricity", "", "1", "NT"),
      Row("fuel", "petrol_L", "2", ""), Row("fuel", "diesel_L", "3", ""),
      Row("fuel", "lpg_L", "1", ""), Row("fuel", "natural_gas_MJ", "0.5", ""),
      Row("anaes", "isoflurane_g", "3", ""), Row("anaes", "sevoflurane_g", "2", ""),
      Row("anaes", "desflurane_g", "1", ""), Row("anaes", "n2o_g", "0.5", "")>>

Without(rows, drop) ==
    SelectSeq(rows, LAMBDA r : r.subcategory \notin drop /\ r.state \notin drop
                                 /\ r.category \notin drop)

WithFactor(rows, sub, f) ==
    [i \in 1..Len(rows) |->
        IF rows[i].subcategory = sub /\ rows[i].state \in {"", "NSW"}
        THEN [rows[i] EXCEPT !.factor = f] ELSE rows[i]]

\* Tables with a row missing, a factor that is not a number, a repeated key,
\* or a value in a column the lookup does not filter on
RowSets ==
    {BaseRows, <<>>}
        \cup {Without(BaseRows, {k}) :
                k \in {"NSW", "QLD", "petrol_L", "diesel_L", "lpg_L", "natural_gas_MJ",
                       "isoflurane_g", "sevoflurane_g", "desflurane_g", "n2o_g",
                       "anaes"}}
        \cup {Without(BaseRows, {"lpg_L", "petrol_L"})}
        \cup {WithFactor(BaseRows, k[1], k[2]) :
                k \in {<<"petrol_L", "abc">>, <<"petrol_L", "">>, <<"diesel_L", "inf">>,
                       <<"isoflurane_g", "abc">>, <<"n2o_g", "-inf">>, <<"", "abc">>,
                       <<"lpg_L", "-1">>}}
        \cup {<<Row("fuel", "petrol_L", "3", "")>> \o BaseRows,
              BaseRows \o <<Row("fuel", "petrol_L", "3", "")>>,
              <<Row("electricity", "petrol_L", "3", "NSW")>> \o BaseRows,
              <<Row("fuel", "diesel_L", "1", "NSW")>> \o BaseRows}

File(columns, rows) == [columns |-> columns, rows |-> rows]

Files ==
    {File(Range(required_cols), rows) : rows \in RowSets}
        \cup {File(columns, BaseRows) :
                columns \in SUBSET (Range(required_cols) \cup ExtraCols)}

\* pd.read_csv("nga_factors_2024.csv")
Bundled == File(Range(required_cols), BaseRows)

NoFile == File({}, <<>>)
NoVals == [name \in {} |-> NaN]
NoError == [kind |-> "", key |-> <<>>, raw |-> ""]
NoScreen == [res |-> <<>>]
NoReq == <<>>
NoRet == [ok |-> FALSE, val |-> NaN, kind |-> "", key |-> NoErrorKey, raw |-> ""]

-----------------------------------------------------------------------------
(* The script run *)

Init ==
    /\ variant \in {"app", "original"}
    /\ pc = "load"
    /\ use_custom = FALSE
    /\ up = NoFile
    /\ factors = NoFile
    /\ inputs = Defaults(variant)
    /\ calls = <<>>
    /\ vals = NoVals
    /\ error = NoError
    /\ screen = NoScreen
    /\ res_csv = <<>>
    /\ req = NoReq
    /\ ret = NoRet

\* factors = load_factors(up) or load_factors()
LoadFactors ==
    /\ pc = "load"
    /\ factors' = IF use_custom /\ up # NoFile THEN up ELSE Bundled
    /\ pc' = "check"
    /\ UNCHANGED <<variant, use_custom, up, inputs, calls, vals, error, screen,
                   res_csv, req, ret>>

\* The required_cols check. st.stop() ends the run before any input widget is
\* created, and Streamlit forgets the value of a widget a run did not create.
CheckColumns ==
    /\ pc = "check"
    /\ IF missing(factors.columns) # <<>>
       THEN /\ error' = [kind |-> "is missing these columns",
                         key |-> missing(factors.columns), raw |-> ""]
            /\ inputs' = Defaults(variant)
            /\ pc' = "stopped"
       ELSE /\ pc' = "calc"
            /\ UNCHANGED <<error, inputs>>
    /\ UNCHANGED <<variant, use_custom, up, factors, calls, vals, screen, res_csv,
                   req, ret>>

CallsOf(ls) == [i \in 1..Len(ls) |-> <<ls[i].category, ls[i].subcategory, ls[i].state>>]

\* Calculate with each failed lookup skipped instead of aborting
CalculateBestEffort ==
    /\ pc = "calc"
    /\ calls' = CallsOf(Lines(variant, inputs))
    /\ vals' = Vals(variant, factors.rows, inputs)
    /\ pc' = "results"
    /\ UNCHANGED <<variant, use_custom, up, factors, inputs, error, screen, res_csv,
                   req, ret>>

\* Calculate with ef() filtering the shared frame in place
CalculateInPlace ==
    /\ pc = "calc"
    /\ LET ls == Lines(variant, inputs)
           k == FirstRaise(factors.rows, inputs, ls)
       IN  /\ factors' = [factors EXCEPT !.rows =
                             Filtered(factors.rows, ls[1].category, ls[1].subcategory,
                                      ls[1].state)]
           /\ IF k = 0
              THEN /\ calls' = CallsOf(ls)
                   /\ vals' = Vals(variant, factors.rows, inputs)
                   /\ pc' = "results"
                   /\ UNCHANGED error
              ELSE /\ calls' = CallsOf(SubSeq(ls, 1, k))
                   /\ vals' = ValsBefore(variant, factors.rows, inputs, k)
                   /\ error' = [kind |-> Lookup(factors.rows, ls[k]).kind,
                                key |-> Lookup(factors.rows, ls[k]).key,
                                raw |-> Lookup(factors.rows, ls[k]).raw]
                   /\ pc' = "stopped"
    /\ UNCHANGED <<variant, use_custom, up, inputs, screen, res_csv, req, ret>>

\* The try / except block. When an ef() raises, the names assigned by the
\* statements before it stay bound; st.error and st.stop() end the run.
Calculate ==
    /\ pc = "calc"
    /\ LET ls == Lines(variant, inputs)
           k == FirstRaise(factors.rows, inputs, ls)
       IN  IF k = 0
           THEN /\ calls' = CallsOf(ls)
                /\ vals' = Vals(variant, factors.rows, inputs)
                /\ pc' = "results"
                /\ UNCHANGED error
           ELSE /\ calls' = CallsOf(SubSeq(ls, 1, k))
                /\ vals' = ValsBefore(variant, factors.rows, inputs, k)
                /\ error' = [kind |-> Lookup(factors.rows, ls[k]).kind,
                             key |-> Lookup(factors.rows, ls[k]).key,
                             raw |-> Lookup(factors.rows, ls[k]).raw]
                /\ pc' = "stopped"
    /\ UNCHANGED <<variant, use_custom, up, factors, inputs, screen, res_csv, req, ret>>

\* The results table, the intensity line and its caption
Results ==
    /\ pc = "results"
    /\ screen' = [res |-> ResTable(variant, vals),
                  intensity |-> Format2f(vals.intensity_per_fte),
                  caption |-> (inputs.fte = 0)]
    /\ pc' = "download"
    /\ UNCHANGED <<variant, use_custom, up, factors, inputs, calls, vals, error,
                   res_csv, req, ret>>

\* res_csv for st.download_button
Download ==
    /\ pc = "download"
    /\ res_csv' = ResCsv(variant, vals)
    /\ pc' = "done"
    /\ UNCHANGED <<variant, use_custom, up, factors, inputs, calls, vals, error,
                   screen, req, ret>>

\* MaxChanges bounds how far a session is from a fresh one: the input widgets
\* away from their defaults, plus one for an uploaded file.
Uploaded(f) == IF f # NoFile THEN 1 ELSE 0

\* Any interaction makes Streamlit run the script again from the top.
Rerun ==
    /\ pc' = "load"
    /\ factors' = NoFile
    /\ calls' = <<>>
    /\ vals' = NoVals
    /\ error' = NoError
    /\ screen' = NoScreen
    /\ res_csv' = <<>>
    /\ UNCHANGED <<variant, req, ret>>

\* The user edits one input widget (they exist once the column check passed).
EditWidget ==
    /\ pc \in {"done", "stopped"}
    /\ missing(factors.columns) = <<>>
    /\ \E w \in OneEdit(variant, inputs) :
          /\ Cardinality(Changed(variant, w)) + Uploaded(up) <= MaxChanges
          /\ inputs' = w
    /\ Rerun
    /\ UNCHANGED <<use_custom, up>>

\* The user flips the upload toggle; the uploader exists only while it is on.
ToggleCustom ==
    /\ pc \in {"done", "stopped"}
    /\ use_custom' = ~use_custom
    /\ up' = NoFile
    /\ Rerun
    /\ UNCHANGED inputs

\* The user uploads a CSV.
Upload ==
    /\ pc \in {"done", "stopped"}
    /\ use_custom
    /\ Cardinality(Changed(variant, inputs)) + 1 <= MaxChanges
    /\ \E f \in Files \ {up} : up' = f
    /\ Rerun
    /\ UNCHANGED <<use_custom, inputs>>

Next ==
    \/ LoadFactors
    \/ CheckColumns
    \/ Calculate
    \/ Results
    \/ Download
    \/ EditWidget
    \/ ToggleCustom
    \/ Upload

Spec == Init /\ [][Next]_vars

-----------------------------------------------------------------------------
(* ef() on its own: any small table, any request *)

LookupRows ==
    {Row(c, s, "2", st) : c \in {"fuel", "anaes"}, s \in {"", "petrol_L"},
                          st \in {"", "NSW"}}
        \cup {Row("fuel", "petrol_L", f, "") : f \in {"3", "abc", "", "nan", "inf"}}

RECURSIVE SeqsUpTo(_, _)
SeqsUpTo(S, n) ==
    IF n = 0 THEN {<<>>}
    ELSE LET shorter == SeqsUpTo(S, n - 1)
         IN  shorter \cup {Append(t, x) : t \in shorter, x \in S}

Requests ==
    {<<c, s, st>> : c \in {"fuel", "anaes"}, s \in {None, "", "petrol_L", "diesel_L"},
                    st \in {None, "NSW"}}

InitLookup ==
    /\ variant = "app"
    /\ pc = "ef"
    /\ use_custom = FALSE
    /\ up = NoFile
    /\ factors \in {File(Range(required_cols), rows) : rows \in SeqsUpTo(LookupRows, MaxRows)}
    /\ inputs = Defaults("app")
    /\ calls = <<>>
    /\ vals = NoVals
    /\ error = NoError
    /\ screen = NoScreen
    /\ res_csv = <<>>
    /\ req \in Requests
    /\ ret = NoRet

CallEf ==
    /\ pc = "ef"
    /\ ret' = ef(factors.rows, req[1], req[2], req[3])
    /\ pc' = "returned"
    /\ UNCHANGED <<variant, use_custom, up, factors, inputs, calls, vals, error,
                   screen, res_csv, req>>

NextLookup == CallEf

SpecLookup == InitLookup /\ [][NextLookup]_vars

-----------------------------------------------------------------------------
(* Claims about ef(), checked under SpecLookup *)

\* An empty cell holds no string; any other cell holds its text.
Holds(cell, v) == cell = v /\ cell # ""

\* Row i of the loaded table satisfies request q
Satisfies(i, q) ==
    /\ Holds(factors.rows[i].category, q[1])
    /\ (q[2] = None \/ Holds(factors.rows[i].subcategory, q[2]))
    /\ (q[3] = None \/ Holds(factors.rows[i].state, q[3]))

Matching(q) == {i \in 1..Len(factors.rows) : Satisfies(i, q)}

FirstMatch(q) == CHOOSE i \in Matching(q) : \A j \in Matching(q) : i <= j

NotFound(r) == ~r.ok /\ r.kind = "No emission factor found"

\* C5: ef(category, subcategory, state) raises "No emission factor found",
\* with the requested category, subcategory and state, exactly when no row has
\* that category and, for each of subcategory and state that was passed, that
\* value; a filter that was not passed leaves every row in.
C5_NotFoundExactlyWhenNoRowMatches ==
    pc = "returned" =>
        /\ NotFound(ret) <=> Matching(req) = {}
        /\ NotFound(ret) => ret.key = req

\* C5 witness: a lookup that passed no state has found a row whose state
\* cell is filled, while another row of that category was filtered out
C5_Witness_FilterSkipped ==
    /\ pc = "returned"
    /\ req[3] = None
    /\ req[2] # None
    /\ ret.ok
    /\ \A i \in Matching(req) : factors.rows[i].state = "NSW"
    /\ \E i \in 1..Len(factors.rows) :
          factors.rows[i].category = req[1] /\ i \notin Matching(req)

\* C6: with several matching rows the factor returned is that of the first
\* matching row in table order, whatever follows it.
C6_FirstMatchingRowWins ==
    (pc = "returned" /\ Matching(req) # {}) =>
        LET first == factors.rows[FirstMatch(req)].factor
        IN  /\ ret.ok => (~FloatRaises(first) /\ ret.val = Float(first))
            /\ ~ret.ok => (FloatRaises(first) /\ ret.raw = first)

\* C6 witness: two matching rows with different factors, the first returned
C6_Witness_TwoMatches ==
    /\ pc = "returned"
    /\ Cardinality(Matching(req)) = 2
    /\ \E i, j \in Matching(req) :
          /\ i < j
          /\ factors.rows[i].factor = "3"
          /\ factors.rows[j].factor = "2"
    /\ ret.ok
    /\ ret.val = Fin(3)

\* The factor cells that are the text of a finite real number
FiniteNumeral(raw) == raw \in DOMAIN NumText

\* C7: when the first matching row's factor is not a finite real number (text,
\* empty, nan, an infinity) ef raises "is not numeric" with the raw value and
\* the requested key, and what ef returns is always finite.
C7_NonFiniteFactorIsRejected ==
    (pc = "returned" /\ Matching(req) # {}) =>
        LET first == factors.rows[FirstMatch(req)].factor
        IN  /\ ~FiniteNumeral(first) =>
                (~ret.ok /\ ret.kind = "is not numeric" /\ ret.raw = first
                    /\ ret.key = req)
            /\ ret.ok => IsFinite(ret.val)

-----------------------------------------------------------------------------
(* Claims about a script run, checked under Spec *)

\* The run is past the column check and past the calculation block
Calculated == pc \in {"results", "download", "done", "stopped"} /\ factors.columns # {}
                 /\ error.kind # "is missing these columns"

\* The run has bound the result names
Produced == pc \in {"results", "download", "done"}

\* No result: nothing rendered, nothing to download, and no scope 1 total,
\* total or intensity bound (subtotals assigned before a failure may be)
NothingProduced ==
    /\ screen = NoScreen
    /\ res_csv = <<>>
    /\ DOMAIN vals \cap {"scope1", "total", "intensity_per_fte"} = {}

\* Python's ==: the two zeros are equal
Same(x, y) == [x EXCEPT !.neg = FALSE] = [y EXCEPT !.neg = FALSE]

\* <<quantity, category, subcategory>> of the scope 1 activities
FuelKeys ==
    {<<"petrol_L", "fuel", "petrol_L">>, <<"diesel_L", "fuel", "diesel_L">>,
     <<"lpg_L", "fuel", "lpg_L">>, <<"natgas_MJ", "fuel", "natural_gas_MJ">>}

AnaesKeys ==
    {<<"iso_g", "anaes", "isoflurane_g">>, <<"sev_g", "anaes", "sevoflurane_g">>,
     <<"des_g", "anaes", "desflurane_g">>, <<"n2o_g", "anaes", "n2o_g">>}

IncludedKeys == FuelKeys \cup (IF inputs.use_anaes THEN AnaesKeys ELSE {})

Factor(k) == ef(factors.rows, k[2], k[3], None)

Contribution(k) == FMul(Fin(inputs.qty[k[1]]), Factor(k).val)

ElecFactor == ef(factors.rows, "electricity", None, inputs.state)

ElecContribution == FMul(Fin(inputs.qty["elec_kwh"]), ElecFactor.val)

RECURSIVE SumOf(_)
SumOf(S) ==
    IF S = {} THEN Fin(0)
    ELSE LET k == CHOOSE x \in S : TRUE
         IN  FAdd(Contribution(k), SumOf(S \ {k}))

CallRaises(c) == ~ef(factors.rows, c[1], c[2], c[3]).ok

\* C1: when a lookup the calculation performs raises, the run stops with no
\* total, scope 1 total or intensity bound and nothing rendered or exported,
\* and the error shown is the one of that lookup, with its category,
\* subcategory and state.
C1_LookupFailureAbortsCalculation ==
    Calculated =>
        \A i \in 1..Len(calls) :
            CallRaises(calls[i]) =>
                /\ pc = "stopped"
                /\ NothingProduced
                /\ error.key = calls[i]
                /\ error.kind = ef(factors.rows, calls[i][1], calls[i][2], calls[i][3]).kind

\* C1 witness: the run stopped at a later lookup, for a quantity that is not
\* zero, after lookups that returned
C1_Witness_StoppedAtLaterLookup ==
    /\ pc = "stopped"
    /\ Len(calls) > 1
    /\ error.kind = "is not numeric"
    /\ error.key = <<"fuel", "petrol_L", None>>
    /\ inputs.qty["petrol_L"] > 0
    /\ DOMAIN vals # {}
    /\ NothingProduced

\* C2: in every result, scope 2 is elec_kwh x the electricity factor of the
\* selected region, scope 1 is the sum of quantity x factor over the included
\* fuel and anaesthetic subcategories, and the total is scope 1 + scope 2.
C2_TotalsAreSumsOfContributions ==
    Produced =>
        /\ Same(vals.scope2, ElecContribution)
        /\ Same(vals.scope1, SumOf(IncludedKeys))
        /\ Same(vals.total, FAdd(vals.scope1, vals.scope2))

\* C2 witness: a downloadable result with both scopes and a vehicle fuel in it
C2_Witness_BothScopes ==
    /\ pc = "done"
    /\ inputs.qty["elec_kwh"] > 0
    /\ inputs.qty["diesel_L"] > 0
    /\ vals.scope2 = Fin(2)
    /\ vals.scope1 = Fin(3)
    /\ vals.total = Fin(5)

\* C3: with the anaesthetic group not included, no anaesthetic lookup is made,
\* its contribution is zero, and the calculation succeeds whenever the
\* electricity and fuel lookups do, whatever the table holds for "anaes".
C3_ExcludedAnaestheticsAreNotLookedUp ==
    (Calculated /\ ~inputs.use_anaes) =>
        /\ \A i \in 1..Len(calls) : calls[i][1] # "anaes"
        /\ error = NoError \/ error.key[1] # "anaes"
        /\ Produced => (vals.scope1_anaes = Fin(0) /\ Same(vals.scope1, SumOf(FuelKeys)))
        /\ (ElecFactor.ok /\ \A k \in FuelKeys : Factor(k).ok) => Produced

\* C3 witness: a finished result from a table without a usable "anaes" factor
C3_Witness_NoAnaesRows ==
    /\ pc = "done"
    /\ ~inputs.use_anaes
    /\ \A k \in AnaesKeys : ~Factor(k).ok
    /\ inputs.qty["petrol_L"] > 0
    /\ vals.total = Fin(2)

\* C4: the caption under the intensity line is shown exactly when fte is 0,
\* the case in which intensity is set to 0.0; a zero intensity with fte > 0
\* has no caption. The total does not depend on fte, and with fte > 0 the
\* intensity is total / fte.
C4_IntensityAndItsCaption ==
    pc \in {"download", "done"} =>
        /\ screen.caption = (inputs.fte = 0)
        /\ inputs.fte = 0 => vals.intensity_per_fte = Fin(0)
        /\ Same(vals.total, FAdd(SumOf(IncludedKeys), ElecContribution))
        /\ inputs.fte > 0 =>
            IF IsFinite(vals.total)
            THEN /\ IsFinite(vals.intensity_per_fte)
                 /\ vals.intensity_per_fte.n * vals.total.d * inputs.fte
                        = vals.total.n * vals.intensity_per_fte.d
            ELSE vals.intensity_per_fte = vals.total

\* C4 witness: fte 0 with a total that is not zero
C4_Witness_ZeroFte ==
    /\ pc = "done"
    /\ inputs.fte = 0
    /\ IsFinite(vals.total) /\ vals.total.n > 0
    /\ screen.caption
    /\ screen.intensity.cents = 0

\* C8: the run stops on "is missing these columns" exactly when a required
\* column is absent from the table; the message lists exactly the absent
\* required columns, whatever other columns there are, and that run makes no
\* lookup and produces nothing.
C8_MissingColumnsStopTheRun ==
    pc \in {"calc", "results", "download", "done", "stopped"} =>
        /\ (error.kind = "is missing these columns")
              <=> (Range(required_cols) \ factors.columns # {})
        /\ error.kind = "is missing these columns" =>
              /\ Range(error.key) = Range(required_cols) \ factors.columns
              /\ Len(error.key) = Cardinality(Range(error.key))
              /\ pc = "stopped"
              /\ calls = <<>>
              /\ vals = NoVals
              /\ NothingProduced

\* C8 witness: two required columns absent from a table with an extra column
C8_Witness_TwoMissingOneExtra ==
    /\ pc = "stopped"
    /\ factors.columns \cap ExtraCols # {}
    /\ error.key = <<"factor", "state">>

\* The <<category, subcategory, state>> looked up for a scope 1 key
KeyOf(k) == <<k[2], k[3], None>>

\* C9: a consumed key whose lookup fails stops the calculation even when its
\* quantity is zero; the error is for that key, or for another consumed key
\* that fails too.
C9_ZeroQuantityStillLooksUp ==
    Calculated =>
        /\ \A k \in IncludedKeys :
              (inputs.qty[k[1]] = 0 /\ ~Factor(k).ok) =>
                  /\ pc = "stopped"
                  /\ NothingProduced
                  /\ \/ error.key = KeyOf(k)
                     \/ \E o \in IncludedKeys \ {k} :
                            ~Factor(o).ok /\ error.key = KeyOf(o)
                     \/ ~ElecFactor.ok /\ error.key[1] = "electricity"
        /\ (inputs.qty["elec_kwh"] = 0 /\ ~ElecFactor.ok) =>
              /\ pc = "stopped"
              /\ NothingProduced
              /\ error.key = <<"electricity", None, inputs.state>>

\* C9 witness: stopped on the diesel factor with no diesel entered
C9_Witness_ZeroDiesel ==
    /\ pc = "stopped"
    /\ inputs.qty["diesel_L"] = 0
    /\ inputs.qty["petrol_L"] > 0
    /\ error.kind = "No emission factor found"
    /\ error.key = <<"fuel", "diesel_L", None>>

\* C10: the calculation, the results section and the download section leave
\* the loaded table (rows, order, factors) and the inputs as they were.
C10_TableAndInputsNotMutated ==
    [][(pc \in {"calc", "results", "download"})
          => (factors' = factors /\ inputs' = inputs)]_vars

\* C10 witness: a finished run on an uploaded table with edited inputs, the
\* table still the uploaded one
C10_Witness_UploadedTableIntact ==
    /\ pc = "done"
    /\ up # NoFile
    /\ factors = up
    /\ Len(factors.rows) > Len(BaseRows)
    /\ inputs.qty["petrol_L"] > 0
    /\ Len(calls) = 9

====
